---- MODULE Spec2Model ----
(***************************************************************************)
(* Model of process_management.py: the dispatcher and the fork/wait        *)
(* demonstrations (tasks 1, 2, 3z, 3o, 5) and the /proc inspector (task 4). *)
(* The original process is the                                             *)
(* "parent"; every process it creates has an entry in procs.  The          *)
(* operating system is modelled by Fork, Zombies/HasChildren (what wait()  *)
(* sees), Reap and Reparent.  fork(), exec of an existing program and      *)
(* "ps" are assumed to be available (no resource exhaustion).              *)
(***************************************************************************)
EXTENDS Integers, Sequences, FiniteSets, TLC

\* ---- bounds of the model -------------------------------------------------
MaxN == 4        \* largest --n for tasks 1 and 2
MaxN5 == 6       \* largest --n for task 5 (beyond the five nice values)
NegN == 2        \* --n ranges down to -NegN
FairMaxN == 2    \* largest --n under FairSpec
MaxFd == 2       \* most entries /proc/<pid>/fd is given
MaxCalls == 2    \* calls of task4_inspect under InspectSpec

\* ---- program constants ---------------------------------------------------
RootPid == 1     \* the process that adopts orphans
ParentPid == 2   \* os.getpid() of the original process
DefaultN == 3    \* --n default
NiceList == <<0, 5, 10, 15, 19>>

Tasks == {"1", "2", "3z", "3o", "4", "5"}
PidArgs == {0, 7}     \* values given to --pid
Platforms == {"Linux", "Other"}
\* how os.execvp(argv[0], argv) ends for the given --cmd:
\*   "found"   the image is replaced, execvp never returns
\*   "missing" FileNotFoundError
\*   "denied"  any other exception (PermissionError, IndexError on empty argv)
Progs == {"found", "missing", "denied"}
ProgCodes == {0, 2}   \* exit codes of the replaced image

VARIABLES
    platform,   \* platform.system()
    task,       \* args.task
    n,          \* args.n
    prog,       \* resolution of args.cmd by execvp
    pc,         \* position of the parent
    i,          \* spawn-loop iterations executed by the parent
    k,          \* task 1: iterations of "for _ in children" executed
    children,   \* the list children (tasks 1 and 5)
    nicelist,   \* task 5: the sliced nicelist
    order,      \* task 5: the list order
    procs,      \* pid -> process created by the program (kept after reaping)
    forked,     \* pids returned by os.fork() in the parent, in order
    waited,     \* <<pid, status>> pairs returned by os.wait() in the parent
    waitCalls,  \* os.wait() calls of the parent that returned or raised
    nochild,    \* os.wait() raised ChildProcessError in the parent
    scan,       \* task 3z: "none" before the scan, then "defunct" or "clean"
    slept,      \* task 3z: time.sleep(2) has returned
    reports,    \* task 3o: the parent ids the child printed, in order
    final,      \* the routine's final line has been printed
    pidGiven,   \* --pid was given (args.pid is not None)
    pid,        \* args.pid when given
    target,     \* <<pid>> once task4_inspect(pid) has been called
    reads,      \* task 4: accesses to /proc made by the current call, in order
    iout,       \* task 4: lines printed by the current call, in order
    calls,      \* task 4: the calls that have returned, each with reads and lines
    fds,        \* task 4: the list fds
    fdi,        \* task 4: entries of fds handled
    plines,     \* task 1: lines printed by the parent, in order
    exitStatus  \* exit status of the parent, -1 while it runs

vars == <<platform, task, n, prog, pc, i, k, children, nicelist, order, procs,
          forked, waited, waitCalls, nochild, scan, slept, reports, final, exitStatus,
          pidGiven, pid, target, reads, iout, calls, fds, fdi, plines>>

inputs == <<platform, task, n, prog, pidGiven, pid>>

inspect == <<target, reads, iout, calls, fds, fdi>>

\* ---- helpers -------------------------------------------------------------
Min(a, b) == IF a < b THEN a ELSE b
Max(a, b) == IF a > b THEN a ELSE b

\* len(range(n))
RangeLen(m) == IF m > 0 THEN m ELSE 0

\* (mutation) the slice keeps one element more
SliceToOneMore(s, m) == SubSeq(s, 1, Min(Max(m, 0) + 1, Len(s)))

\* s[:m] with Python's slice rules (a negative stop counts from the end)
SliceTo(s, m) ==
    LET stop == IF m < 0 THEN Max(Len(s) + m, 0) ELSE Min(m, Len(s))
    IN  SubSeq(s, 1, stop)

\* the status word os.wait() returns for a child that called _exit(code)
WaitStatus(code) == code * 256

\* ---- the operating system ------------------------------------------------
Live(ps) == {p \in DOMAIN ps : ps[p].pc # "reaped"}

\* os.fork() in the parent: the child's pid
NewPid(ps) == ParentPid + 1 + Cardinality(DOMAIN ps)

\* the child created by fork(): a copy of the parent positioned at childPc
Fork(ps, childPc, idx, niceval) ==
    [p \in DOMAIN ps \cup {NewPid(ps)} |->
        IF p \in DOMAIN ps THEN ps[p]
        ELSE [ppid |-> ParentPid, pc |-> childPc, idx |-> idx,
              nice |-> niceval, niceOk |-> TRUE, status |-> -1, said |-> {}]]

\* children of `parent` that wait() can see
ChildrenOf(ps, parent) == {p \in Live(ps) : ps[p].ppid = parent}
HasChildren(ps, parent) == ChildrenOf(ps, parent) # {}
Zombies(ps, parent) == {p \in ChildrenOf(ps, parent) : ps[p].pc = "zombie"}

\* the process table after wait() has collected p
Reap(ps, p) == [ps EXCEPT ![p].pc = "reaped"]

\* a process terminates: it stays in the table as a zombie with its status
Exited(ps, p, code) == [ps EXCEPT ![p].pc = "zombie", ![p].status = WaitStatus(code)]

\* a process prints a line
Says(ps, p, line) == [ps EXCEPT ![p].said = @ \cup {line}]

\* the parent terminates: its remaining children are adopted by the root process
Reparent(ps) ==
    [p \in DOMAIN ps |->
        IF ps[p].ppid = ParentPid /\ ps[p].pc # "reaped"
        THEN [ps[p] EXCEPT !.ppid = RootPid] ELSE ps[p]]

ParentAlive == exitStatus = -1

\* ---- initial state -------------------------------------------------------
NRange(t) ==
    IF t \in {"1", "2"} THEN (0 - NegN)..MaxN
    ELSE IF t = "5" THEN (0 - NegN)..MaxN5
    ELSE {DefaultN}

Init ==
    /\ platform \in Platforms
    /\ task \in Tasks
    /\ n \in NRange(task)
    /\ prog \in (IF task = "2" THEN Progs ELSE {"found"})
    /\ pc = "main"
    /\ i = 0
    /\ k = 0
    /\ children = <<>>
    /\ nicelist = <<>>
    /\ order = <<>>
    /\ procs = <<>>
    /\ forked = <<>>
    /\ waited = <<>>
    /\ waitCalls = 0
    /\ nochild = FALSE
    /\ scan = "none"
    /\ slept = FALSE
    /\ reports = <<>>
    /\ final = FALSE
    /\ exitStatus = -1
    /\ pidGiven \in (IF task = "4" THEN BOOLEAN ELSE {FALSE})
    /\ pid \in (IF pidGiven THEN PidArgs ELSE {0})
    /\ target = <<>>
    /\ reads = <<>>
    /\ iout = <<>>
    /\ calls = <<>>
    /\ fds = <<>>
    /\ fdi = 0
    /\ plines = <<>>

\* ---- dispatcher ----------------------------------------------------------
TaskEntry(t) ==
    CASE t = "1" -> "t1_begin"
      [] t = "2" -> "t2_begin"
      [] t = "3z" -> "z_begin"
      [] t = "3o" -> "o_begin"
      [] t = "4" -> "i4_begin"
      [] t = "5" -> "t5_begin"

\* (mutation) the platform is not checked
PlatformOkAny(pl) == TRUE

\* ensure_linux(): platform.system() == "Linux"
PlatformOk(pl) == pl = "Linux"

\* "not args.pid": --pid absent (None), or given as 0
PidMissing(given, v) == ~given \/ v = 0

\* ensure_linux(), parse_args() and the if/elif chain of main()
Main ==
    /\ pc = "main"
    /\ IF ~PlatformOk(platform) \/ (task = "4" /\ PidMissing(pidGiven, pid))
       THEN pc' = "exit" /\ exitStatus' = 1 /\ target' = target
       ELSE /\ pc' = TaskEntry(task)
            /\ exitStatus' = exitStatus
            /\ target' = IF task = "4" THEN <<pid>> ELSE target
    /\ UNCHANGED <<inputs, reads, iout, calls, fds, fdi, plines, i, k, children, nicelist, order, procs, forked, waited,
                   waitCalls, nochild, scan, slept, reports, final>>

\* the selected routine returns to main(), which returns: exit status 0
Finish ==
    /\ pc' = "exit"
    /\ exitStatus' = 0
    /\ final' = TRUE

\* an exception nobody catches ends the parent with a traceback: exit status 1
Crash ==
    /\ pc' = "exit"
    /\ exitStatus' = 1
    /\ final' = final

\* ---- os.wait() in the parent ---------------------------------------------
\* wait() returns the terminated child p with its status word
OsWait(p) ==
    /\ p \in Zombies(procs, ParentPid)
    /\ procs' = Reap(procs, p)
    /\ waited' = Append(waited, <<p, procs[p].status>>)
    /\ waitCalls' = waitCalls + 1
    /\ nochild' = nochild

\* wait() raises ChildProcessError: the caller has no child left
OsWaitNoChild ==
    /\ ~HasChildren(procs, ParentPid)
    /\ waitCalls' = waitCalls + 1
    /\ nochild' = TRUE
    /\ UNCHANGED <<procs, waited>>

\* ---- task 1: task1_create_children ---------------------------------------
\* (mutation) the counted loop takes one turn more than there are children
T1ReapTurnsLong(ch) == Len(ch) + 1

\* (mutation) the reap loop runs one turn short
T1ReapTurnsShort(ch) == Len(ch) - 1

\* iterations of "for _ in children"
T1ReapTurns(ch) == Len(ch)

\* (mutation) the greeting carries the loop index itself
T1MessageIndexRaw(it) == it

\* the index in "Hello from child {i+1}"
T1MessageIndex(it) == it + 1

T1Begin ==
    /\ pc = "t1_begin"
    /\ children' = <<>>
    /\ plines' = Append(plines, <<"header", ParentPid>>)
    /\ pc' = IF RangeLen(n) > 0 THEN "t1_spawn" ELSE "t1_reap"
    /\ UNCHANGED <<inputs, inspect, i, k, nicelist, order, procs, forked, waited,
                   waitCalls, nochild, scan, slept, reports, final, exitStatus>>

T1Fork ==
    /\ pc = "t1_spawn"
    /\ i < RangeLen(n)
    /\ procs' = Fork(procs, "c1_greet", T1MessageIndex(i), 0)
    /\ children' = Append(children, NewPid(procs))
    /\ forked' = Append(forked, NewPid(procs))
    /\ i' = i + 1
    /\ plines' = Append(plines, <<"spawned", NewPid(procs)>>)
    /\ pc' = IF i + 1 < RangeLen(n) THEN "t1_spawn" ELSE "t1_reap"
    /\ UNCHANGED <<inputs, inspect, k, nicelist, order, waited, waitCalls, nochild,
                   scan, slept, reports, final, exitStatus>>

T1Wait ==
    /\ pc = "t1_reap"
    /\ k < T1ReapTurns(children)
    /\ \/ /\ \E p \in Zombies(procs, ParentPid) :
                /\ OsWait(p)
                /\ plines' = Append(plines, <<"waited", p>>)
          /\ k' = k + 1
          /\ UNCHANGED <<pc, final, exitStatus>>
       \/ /\ OsWaitNoChild
          /\ Crash
          /\ k' = k
          /\ plines' = plines
    /\ UNCHANGED <<inputs, inspect, i, children, nicelist, order, forked, scan, slept, reports>>

T1Final ==
    /\ pc = "t1_reap"
    /\ k >= T1ReapTurns(children)
    /\ Finish
    /\ plines' = Append(plines, <<"final", 0>>)
    /\ procs' = Reparent(procs)
    /\ UNCHANGED <<inputs, inspect, i, k, children, nicelist, order, forked, waited,
                   waitCalls, nochild, scan, slept, reports>>

C1Greet(p) ==
    /\ procs[p].pc = "c1_greet"
    /\ procs' = [Says(procs, p, <<"greet", procs[p].idx>>) EXCEPT ![p].pc = "c1_sleep"]
    /\ UNCHANGED <<inputs, inspect, plines, pc, i, k, children, nicelist, order, forked, waited,
                   waitCalls, nochild, scan, slept, reports, final, exitStatus>>

C1Exit(p) ==
    /\ procs[p].pc = "c1_sleep"
    /\ procs' = Exited(procs, p, 0)
    /\ UNCHANGED <<inputs, inspect, plines, pc, i, k, children, nicelist, order, forked, waited,
                   waitCalls, nochild, scan, slept, reports, final, exitStatus>>

\* ---- task 2: task2_exec_children(n, cmd, use_exec=True) ------------------
\* (mutation) FileNotFoundError is not caught
ExecOutcomeUncaught(pr) == IF pr = "found" THEN "c2_image" ELSE "c2_raise"

\* where os.execvp leaves the child
ExecOutcome(pr) ==
    CASE pr = "found" -> "c2_image"
      [] pr = "missing" -> "c2_diag"
      [] pr = "denied" -> "c2_raise"

\* the parent's reaction to ChildProcessError in task 2: break
T2OnNoChild == "t2_final"

\* (mutation) the reap loop is left after the first wait()
T2AfterWaitBreak == "t2_final"

\* after a wait() that returned, "while True" goes round again
T2AfterWait == "t2_reap"

T2Begin ==
    /\ pc = "t2_begin"
    /\ pc' = IF RangeLen(n) > 0 THEN "t2_spawn" ELSE "t2_reap"
    /\ UNCHANGED <<inputs, inspect, plines, i, k, children, nicelist, order, procs, forked, waited,
                   waitCalls, nochild, scan, slept, reports, final, exitStatus>>

T2Fork ==
    /\ pc = "t2_spawn"
    /\ i < RangeLen(n)
    /\ procs' = Fork(procs, "c2_about", i + 1, 0)
    /\ forked' = Append(forked, NewPid(procs))
    /\ i' = i + 1
    /\ pc' = IF i + 1 < RangeLen(n) THEN "t2_spawn" ELSE "t2_reap"
    /\ UNCHANGED <<inputs, inspect, plines, k, children, nicelist, order, waited, waitCalls, nochild,
                   scan, slept, reports, final, exitStatus>>

T2Wait ==
    /\ pc = "t2_reap"
    /\ \/ /\ \E p \in Zombies(procs, ParentPid) : OsWait(p)
          /\ pc' = T2AfterWait
          /\ UNCHANGED <<final, exitStatus>>
       \/ /\ OsWaitNoChild
          /\ IF T2OnNoChild = "crash"
             THEN Crash
             ELSE pc' = T2OnNoChild /\ UNCHANGED <<final, exitStatus>>
    /\ UNCHANGED <<inputs, inspect, plines, i, k, children, nicelist, order, forked, scan, slept, reports>>

T2Final ==
    /\ pc = "t2_final"
    /\ Finish
    /\ procs' = Reparent(procs)
    /\ UNCHANGED <<inputs, inspect, plines, i, k, children, nicelist, order, forked, waited,
                   waitCalls, nochild, scan, slept, reports>>

C2About(p) ==
    /\ procs[p].pc = "c2_about"
    /\ procs' = [Says(procs, p, <<"about", procs[p].idx>>) EXCEPT ![p].pc = "c2_exec"]
    /\ UNCHANGED <<inputs, inspect, plines, pc, i, k, children, nicelist, order, forked, waited,
                   waitCalls, nochild, scan, slept, reports, final, exitStatus>>

\* os.execvp(argv[0], argv)
C2Exec(p) ==
    /\ procs[p].pc = "c2_exec"
    /\ procs' = [procs EXCEPT ![p].pc = ExecOutcome(prog)]
    /\ UNCHANGED <<inputs, inspect, plines, pc, i, k, children, nicelist, order, forked, waited,
                   waitCalls, nochild, scan, slept, reports, final, exitStatus>>

\* except FileNotFoundError: print the diagnostic, os._exit(1)
C2Diag(p) ==
    /\ procs[p].pc = "c2_diag"
    /\ procs' = Exited(Says(procs, p, <<"execfailed", procs[p].idx>>), p, 1)
    /\ UNCHANGED <<inputs, inspect, plines, pc, i, k, children, nicelist, order, forked, waited,
                   waitCalls, nochild, scan, slept, reports, final, exitStatus>>

\* (mutation) after the failed exec the child goes on with the spawn loop
C2RaiseContinues(p) ==
    /\ procs[p].pc = "c2_raise"
    /\ procs' = [q \in DOMAIN procs \cup {NewPid(procs)} |->
                    IF q = p THEN [procs[p] EXCEPT !.pc = "zombie", !.status = WaitStatus(0)]
                    ELSE IF q \in DOMAIN procs THEN procs[q]
                    ELSE [procs[p] EXCEPT !.ppid = p, !.pc = "c2_about", !.said = {}]]
    /\ UNCHANGED <<inputs, inspect, plines, pc, i, k, children, nicelist, order, forked, waited,
                   waitCalls, nochild, scan, slept, reports, final, exitStatus>>

\* any other exception leaves task2_exec_children and main(): the child ends
\* with a traceback and exit status 1
C2Raise(p) ==
    /\ procs[p].pc = "c2_raise"
    /\ procs' = Exited(procs, p, 1)
    /\ UNCHANGED <<inputs, inspect, plines, pc, i, k, children, nicelist, order, forked, waited,
                   waitCalls, nochild, scan, slept, reports, final, exitStatus>>

\* the program that replaced the child's image terminates
ProgExit(p) ==
    /\ procs[p].pc = "c2_image"
    /\ \E code \in ProgCodes : procs' = Exited(procs, p, code)
    /\ UNCHANGED <<inputs, inspect, plines, pc, i, k, children, nicelist, order, forked, waited,
                   waitCalls, nochild, scan, slept, reports, final, exitStatus>>

\* ---- task 3z: task3_zombie_demo ------------------------------------------
\* processes started by subprocess.run, not by os.fork()
Helpers == DOMAIN procs \ {forked[j] : j \in 1..Len(forked)}

\* (mutation) the helper is left for os.wait() to find
RunReapNot(ps, h) == ps

\* subprocess.run collects its own child h with waitpid(h)
RunReap(ps, h) == Reap(ps, h)

\* (mutation) the listing shows a defunct entry whatever the table holds
PsOutputAlways(ps) == "defunct"

\* what "ps -el" shows: a defunct entry while some process is a zombie
PsOutput(ps) == IF \E q \in Live(ps) : ps[q].pc = "zombie" THEN "defunct" ELSE "clean"

ZBegin ==
    /\ pc = "z_begin"
    /\ pc' = "z_fork"
    /\ UNCHANGED <<inputs, inspect, plines, i, k, children, nicelist, order, procs, forked, waited,
                   waitCalls, nochild, scan, slept, reports, final, exitStatus>>

\* os.fork(), then the parent's "NOT calling wait() yet" line
ZFork ==
    /\ pc = "z_fork"
    /\ procs' = Fork(procs, "cz_exit", 0, 0)
    /\ forked' = Append(forked, NewPid(procs))
    /\ pc' = "z_ps"
    /\ UNCHANGED <<inputs, inspect, plines, i, k, children, nicelist, order, waited, waitCalls,
                   nochild, scan, slept, reports, final, exitStatus>>

\* the child prints its line and calls os._exit(0)
CZExit(p) ==
    /\ procs[p].pc = "cz_exit"
    /\ procs' = Exited(Says(procs, p, <<"exiting", 0>>), p, 0)
    /\ UNCHANGED <<inputs, inspect, plines, pc, i, k, children, nicelist, order, forked, waited,
                   waitCalls, nochild, scan, slept, reports, final, exitStatus>>

\* subprocess.run(["ps", "-el"], ...) starts the helper
ZPsRun ==
    /\ pc = "z_ps"
    /\ procs' = Fork(procs, "ps_scan", 0, 0)
    /\ pc' = "z_pswait"
    /\ UNCHANGED <<inputs, inspect, plines, i, k, children, nicelist, order, forked, waited,
                   waitCalls, nochild, scan, slept, reports, final, exitStatus>>

\* the helper reads the process table, writes it to the pipe and exits
PsScan(p) ==
    /\ procs[p].pc = "ps_scan"
    /\ scan' = PsOutput(procs)
    /\ procs' = Exited(procs, p, 0)
    /\ UNCHANGED <<inputs, inspect, plines, pc, i, k, children, nicelist, order, forked, waited,
                   waitCalls, nochild, slept, reports, final, exitStatus>>

\* subprocess.run returns; the parent filters and prints the defunct lines
ZPsDone ==
    /\ pc = "z_pswait"
    /\ \E h \in Helpers :
          /\ procs[h].pc = "zombie"
          /\ procs' = RunReap(procs, h)
    /\ pc' = "z_sleep"
    /\ UNCHANGED <<inputs, inspect, plines, i, k, children, nicelist, order, forked, waited,
                   waitCalls, nochild, scan, slept, reports, final, exitStatus>>

\* time.sleep(2)
ZSleep ==
    /\ pc = "z_sleep"
    /\ slept' = TRUE
    /\ pc' = "z_wait"
    /\ UNCHANGED <<inputs, inspect, plines, i, k, children, nicelist, order, procs, forked, waited,
                   waitCalls, nochild, scan, reports, final, exitStatus>>

\* (mutation) the parent goes on without calling os.wait()
ZWaitSkipped ==
    /\ pc = "z_wait"
    /\ pc' = "z_final"
    /\ UNCHANGED <<inputs, inspect, plines, i, k, children, nicelist, order, procs, forked, waited,
                   waitCalls, nochild, scan, slept, reports, final, exitStatus>>

\* waited = os.wait()
ZWait ==
    /\ pc = "z_wait"
    /\ \/ /\ \E p \in Zombies(procs, ParentPid) : OsWait(p)
          /\ pc' = "z_final"
          /\ UNCHANGED <<final, exitStatus>>
       \/ /\ OsWaitNoChild
          /\ Crash
    /\ UNCHANGED <<inputs, inspect, plines, i, k, children, nicelist, order, forked, scan, slept, reports>>

ZFinal ==
    /\ pc = "z_final"
    /\ Finish
    /\ procs' = Reparent(procs)
    /\ UNCHANGED <<inputs, inspect, plines, i, k, children, nicelist, order, forked, waited,
                   waitCalls, nochild, scan, slept, reports>>

\* ---- task 3o: task3_orphan_demo ------------------------------------------
\* os.getppid() in process p; orphaned records whether the parent had exited
PpidReport(ps, p) == [ppid |-> ps[p].ppid, orphaned |-> ~ParentAlive]

\* (mutation) the child prints the parent id it read at start-up again
SecondReportCached(ps, p, rs) == [ppid |-> rs[1].ppid, orphaned |-> ~ParentAlive]

\* the second os.getppid(), made after the sleep
SecondReport(ps, p, rs) == PpidReport(ps, p)

OBegin ==
    /\ pc = "o_begin"
    /\ pc' = "o_fork"
    /\ UNCHANGED <<inputs, inspect, plines, i, k, children, nicelist, order, procs, forked, waited,
                   waitCalls, nochild, scan, slept, reports, final, exitStatus>>

OFork ==
    /\ pc = "o_fork"
    /\ procs' = Fork(procs, "co_report1", 0, 0)
    /\ forked' = Append(forked, NewPid(procs))
    /\ pc' = "o_exit"
    /\ UNCHANGED <<inputs, inspect, plines, i, k, children, nicelist, order, waited, waitCalls,
                   nochild, scan, slept, reports, final, exitStatus>>

\* the parent prints its line and calls os._exit(0) without waiting
OParentExit ==
    /\ pc = "o_exit"
    /\ pc' = "exit"
    /\ exitStatus' = 0
    /\ procs' = Reparent(procs)
    /\ UNCHANGED <<inputs, inspect, plines, i, k, children, nicelist, order, forked, waited,
                   waitCalls, nochild, scan, slept, reports, final>>

\* the child prints its pid and initial PPID
COReport1(p) ==
    /\ procs[p].pc = "co_report1"
    /\ reports' = Append(reports, PpidReport(procs, p))
    /\ procs' = [Says(procs, p, <<"initial", procs[p].ppid>>) EXCEPT ![p].pc = "co_sleep"]
    /\ UNCHANGED <<inputs, inspect, plines, pc, i, k, children, nicelist, order, forked, waited,
                   waitCalls, nochild, scan, slept, final, exitStatus>>

\* (mutation) the child stays asleep until its parent has gone
COWakeAfterParent(p) ==
    /\ procs[p].pc = "co_sleep"
    /\ ~ParentAlive
    /\ procs' = [procs EXCEPT ![p].pc = "co_report2"]
    /\ UNCHANGED <<inputs, inspect, plines, pc, i, k, children, nicelist, order, forked, waited,
                   waitCalls, nochild, scan, slept, reports, final, exitStatus>>

\* time.sleep(sleep_child) returns
COWake(p) ==
    /\ procs[p].pc = "co_sleep"
    /\ procs' = [procs EXCEPT ![p].pc = "co_report2"]
    /\ UNCHANGED <<inputs, inspect, plines, pc, i, k, children, nicelist, order, forked, waited,
                   waitCalls, nochild, scan, slept, reports, final, exitStatus>>

\* the child prints its PPID again and calls os._exit(0)
COReport2(p) ==
    /\ procs[p].pc = "co_report2"
    /\ reports' = Append(reports, SecondReport(procs, p, reports))
    /\ procs' = Exited(Says(procs, p, <<"after", SecondReport(procs, p, reports).ppid>>), p, 0)
    /\ UNCHANGED <<inputs, inspect, plines, pc, i, k, children, nicelist, order, forked, waited,
                   waitCalls, nochild, scan, slept, final, exitStatus>>

\* the root process collects an adopted child that has terminated
RootReap(p) ==
    /\ procs[p].pc = "zombie"
    /\ procs[p].ppid = RootPid
    /\ procs' = Reap(procs, p)
    /\ UNCHANGED <<inputs, inspect, plines, pc, i, k, children, nicelist, order, forked, waited,
                   waitCalls, nochild, scan, slept, reports, final, exitStatus>>

\* ---- task 5: task5_priority ----------------------------------------------
\* (mutation) the pid is put at the front
OrderPrepend(ord, p) == <<p>> \o ord

\* order.append(pid)
OrderAppend(ord, p) == Append(ord, p)

\* (mutation) ChildProcessError is not caught in task 5
T5OnNoChildFatal == "crash"

\* the parent's reaction to ChildProcessError in task 5: pass
T5OnNoChild == "t5_final"

T5Begin ==
    /\ pc = "t5_begin"
    /\ children' = <<>>
    /\ nicelist' = SliceTo(NiceList, n)
    /\ pc' = IF Len(SliceTo(NiceList, n)) > 0 THEN "t5_spawn" ELSE "t5_reap"
    /\ UNCHANGED <<inputs, inspect, plines, i, k, order, procs, forked, waited, waitCalls, nochild,
                   scan, slept, reports, final, exitStatus>>

\* one turn of "for i, niceval in enumerate(nicelist)" in the parent
T5Fork ==
    /\ pc = "t5_spawn"
    /\ i < Len(nicelist)
    /\ procs' = Fork(procs, "c5_nice", i + 1, nicelist[i + 1])
    /\ children' = Append(children, NewPid(procs))
    /\ forked' = Append(forked, NewPid(procs))
    /\ i' = i + 1
    /\ pc' = IF i + 1 < Len(nicelist) THEN "t5_spawn" ELSE "t5_reap"
    /\ UNCHANGED <<inputs, inspect, plines, k, nicelist, order, waited, waitCalls, nochild,
                   scan, slept, reports, final, exitStatus>>

T5Wait ==
    /\ pc = "t5_reap"
    /\ \/ /\ \E p \in Zombies(procs, ParentPid) :
                /\ OsWait(p)
                /\ order' = OrderAppend(order, p)
          /\ UNCHANGED <<pc, final, exitStatus>>
       \/ /\ OsWaitNoChild
          /\ order' = order
          /\ IF T5OnNoChild = "crash"
             THEN Crash
             ELSE pc' = T5OnNoChild /\ UNCHANGED <<final, exitStatus>>
    /\ UNCHANGED <<inputs, inspect, plines, i, k, children, nicelist, forked, scan, slept, reports>>

T5Final ==
    /\ pc = "t5_final"
    /\ Finish
    /\ procs' = Reparent(procs)
    /\ UNCHANGED <<inputs, inspect, plines, i, k, children, nicelist, order, forked, waited,
                   waitCalls, nochild, scan, slept, reports>>

\* (mutation) an exception of os.nice is not caught
AfterNiceFatal(ok) == IF ok THEN "c5_work" ELSE "c2_raise"

\* where the child goes after "try: os.nice(niceval) / except Exception: pass"
AfterNice(ok) == "c5_work"

\* os.nice(niceval) succeeds or raises (ignored); then the "starting work" line
C5Nice(p) ==
    /\ procs[p].pc = "c5_nice"
    /\ \E ok \in BOOLEAN :
          procs' = [Says(procs, p, <<"start", procs[p].nice>>)
                        EXCEPT ![p].pc = AfterNice(ok), ![p].niceOk = ok]
    /\ UNCHANGED <<inputs, inspect, plines, pc, i, k, children, nicelist, order, forked, waited,
                   waitCalls, nochild, scan, slept, reports, final, exitStatus>>

\* the busy loop ends; the "finished work" line; os._exit(0)
C5Finish(p) ==
    /\ procs[p].pc = "c5_work"
    /\ procs' = Exited(Says(procs, p, <<"finished", procs[p].nice>>), p, 0)
    /\ UNCHANGED <<inputs, inspect, plines, pc, i, k, children, nicelist, order, forked, waited,
                   waitCalls, nochild, scan, slept, reports, final, exitStatus>>

\* ---- task 4: task4_inspect ----------------------------------------------
\* one access to /proc/<pid>: what was read, for which descriptor, and whether
\* it succeeded
Read(what, fd, ok) == [what |-> what, fd |-> fd, ok |-> ok]

\* (mutation) the "return" after the "does not exist" line is missing
AfterExistsNoReturn(ex) == "i4_status"

\* if not proc.exists(): print and return
AfterExists(ex) == IF ex THEN "i4_status" ELSE "i4_return"

\* the status read, inside its own try/except Exception
AfterStatus(ok) == "i4_exe"

\* the exe link read, inside its own try/except Exception
AfterExe(ok) == "i4_fd"

\* (mutation) a failing readlink leaves the loop through the outer except
AfterLinkAbort(ok, more) == IF ok /\ more THEN "i4_link" ELSE "i4_return"

\* os.readlink(fd) inside the inner try/except: the loop goes on
AfterLink(ok, more) == IF more THEN "i4_link" ELSE "i4_return"

\* print the heading; proc.exists()
I4Begin ==
    /\ pc = "i4_begin"
    /\ \E ex \in BOOLEAN :
          /\ reads' = Append(reads, Read("dir", -1, ex))
          /\ iout' = iout \o (IF ex THEN <<"inspecting">> ELSE <<"inspecting", "absent">>)
          /\ pc' = AfterExists(ex)
    /\ UNCHANGED <<inputs, target, calls, fds, fdi, plines, i, k, children, nicelist,
                   order, procs, forked, waited, waitCalls, nochild, scan, slept,
                   reports, final, exitStatus>>

\* open /proc/<pid>/status and print the selected fields
I4Status ==
    /\ pc = "i4_status"
    /\ \E ok \in BOOLEAN :
          /\ reads' = Append(reads, Read("status", -1, ok))
          /\ iout' = iout \o (IF ok THEN <<"status", "fields">>
                                   ELSE <<"status", "status_error">>)
          /\ pc' = AfterStatus(ok)
    /\ UNCHANGED <<inputs, target, calls, fds, fdi, plines, i, k, children, nicelist,
                   order, procs, forked, waited, waitCalls, nochild, scan, slept,
                   reports, final, exitStatus>>

\* os.readlink(/proc/<pid>/exe)
I4Exe ==
    /\ pc = "i4_exe"
    /\ \E ok \in BOOLEAN :
          /\ reads' = Append(reads, Read("exe", -1, ok))
          /\ iout' = Append(iout, IF ok THEN "exe" ELSE "exe_unreadable")
          /\ pc' = AfterExe(ok)
    /\ UNCHANGED <<inputs, target, calls, fds, fdi, plines, i, k, children, nicelist,
                   order, procs, forked, waited, waitCalls, nochild, scan, slept,
                   reports, final, exitStatus>>

\* fds = list((proc / "fd").iterdir())
I4FdList ==
    /\ pc = "i4_fd"
    /\ \E ok \in BOOLEAN, cnt \in 0..MaxFd :
          /\ ok \/ cnt = 0
          /\ reads' = Append(reads, Read("fd", -1, ok))
          /\ iout' = Append(iout, IF ok THEN "fd_count" ELSE "fd_error")
          /\ fds' = [x \in 1..cnt |-> x - 1]
          /\ pc' = IF ok /\ cnt > 0 THEN "i4_link" ELSE "i4_return"
    /\ fdi' = 0
    /\ UNCHANGED <<inputs, target, calls, plines, i, k, children, nicelist,
                   order, procs, forked, waited, waitCalls, nochild, scan, slept,
                   reports, final, exitStatus>>

\* one turn of "for fd in fds": os.readlink(fd)
I4Link ==
    /\ pc = "i4_link"
    /\ fdi < Len(fds)
    /\ \E ok \in BOOLEAN :
          /\ reads' = Append(reads, Read("link", fds[fdi + 1], ok))
          /\ iout' = Append(iout, IF ok THEN "fd_target" ELSE "fd_unreadable")
          /\ pc' = AfterLink(ok, fdi + 1 < Len(fds))
    /\ fdi' = fdi + 1
    /\ UNCHANGED <<inputs, target, calls, fds, plines, i, k, children, nicelist,
                   order, procs, forked, waited, waitCalls, nochild, scan, slept,
                   reports, final, exitStatus>>

\* task4_inspect returns to main(), which returns: exit status 0
I4Return ==
    /\ pc = "i4_return"
    /\ calls' = Append(calls, [reads |-> reads, lines |-> iout])
    /\ pc' = "exit"
    /\ exitStatus' = 0
    /\ UNCHANGED <<inputs, target, reads, iout, fds, fdi, plines, i, k, children,
                   nicelist, order, procs, forked, waited, waitCalls, nochild, scan,
                   slept, reports, final>>

\* task4_inspect returns and is called again with the same pid
I4Again ==
    /\ pc = "i4_return"
    /\ Len(calls) + 1 < MaxCalls
    /\ calls' = Append(calls, [reads |-> reads, lines |-> iout])
    /\ reads' = <<>>
    /\ iout' = <<>>
    /\ fds' = <<>>
    /\ fdi' = 0
    /\ pc' = "i4_begin"
    /\ UNCHANGED <<inputs, target, plines, i, k, children, nicelist, order, procs,
                   forked, waited, waitCalls, nochild, scan, slept, reports, final,
                   exitStatus>>

\* ---- the program ---------------------------------------------------------
ParentStep ==
    \/ Main
    \/ T1Begin \/ T1Fork \/ T1Wait \/ T1Final
    \/ T2Begin \/ T2Fork \/ T2Wait \/ T2Final
    \/ ZBegin \/ ZFork \/ ZPsRun \/ ZPsDone \/ ZSleep \/ ZWait \/ ZFinal
    \/ OBegin \/ OFork \/ OParentExit
    \/ T5Begin \/ T5Fork \/ T5Wait \/ T5Final
    \/ I4Begin \/ I4Status \/ I4Exe \/ I4FdList \/ I4Link \/ I4Return

ChildStep(p) ==
    \/ C1Greet(p) \/ C1Exit(p)
    \/ C2About(p) \/ C2Exec(p) \/ C2Diag(p) \/ C2Raise(p) \/ ProgExit(p)
    \/ CZExit(p) \/ PsScan(p)
    \/ COReport1(p) \/ COWake(p) \/ COReport2(p) \/ RootReap(p)
    \/ C5Nice(p) \/ C5Finish(p)

Next ==
    \/ ParentStep
    \/ \E p \in DOMAIN procs : C1Greet(p)
    \/ \E p \in DOMAIN procs : C1Exit(p)
    \/ \E p \in DOMAIN procs : C2About(p)
    \/ \E p \in DOMAIN procs : C2Exec(p)
    \/ \E p \in DOMAIN procs : C2Diag(p)
    \/ \E p \in DOMAIN procs : C2Raise(p)
    \/ \E p \in DOMAIN procs : ProgExit(p)
    \/ \E p \in DOMAIN procs : CZExit(p)
    \/ \E p \in DOMAIN procs : PsScan(p)
    \/ \E p \in DOMAIN procs : COReport1(p)
    \/ \E p \in DOMAIN procs : COWake(p)
    \/ \E p \in DOMAIN procs : COReport2(p)
    \/ \E p \in DOMAIN procs : RootReap(p)
    \/ \E p \in DOMAIN procs : C5Nice(p)
    \/ \E p \in DOMAIN procs : C5Finish(p)

Spec == Init /\ [][Next]_vars

\* task4_inspect called by main() and then again, up to MaxCalls times
InspectInit == Init /\ platform = "Linux" /\ task = "4" /\ ~PidMissing(pidGiven, pid)

InspectNext ==
    \/ Main
    \/ I4Begin \/ I4Status \/ I4Exe \/ I4FdList \/ I4Link
    \/ I4Again
    \/ I4Return

InspectSpec == InspectInit /\ [][InspectNext]_vars

\* pids the program can be given by fork()
PidRange == (ParentPid + 1)..(ParentPid + 1 + Max(MaxN, 5))

FairInit == Init /\ (task \in {"1", "2", "5"} => n <= FairMaxN)

\* the scheduler runs every process that can take a step
FairSpec ==
    /\ FairInit
    /\ [][Next]_vars
    /\ WF_vars(ParentStep)
    /\ \A p \in PidRange : WF_vars(p \in DOMAIN procs /\ ChildStep(p))

\* ---- properties ----------------------------------------------------------
Finished == pc = "exit" /\ final
ForkedSet == {forked[j] : j \in 1..Len(forked)}
WaitedPids == [j \in 1..Len(waited) |-> waited[j][1]]
WaitedSet == {waited[j][1] : j \in 1..Len(waited)}
NoDup(s) == \A a, b \in 1..Len(s) : a # b => s[a] # s[b]
Times(s, x) == Cardinality({j \in 1..Len(s) : s[j] = x})

\* C1: task 1 with N >= 0: the parent never collects more than N statuses,
\* and when the routine has finished it has forked N children, collected
\* exactly N statuses, and the pids wait() returned are the pids fork() returned.
C1_Task1ReapsAll ==
    (task = "1" /\ n >= 0) =>
        /\ Len(waited) <= n
        /\ Finished =>
              /\ Len(forked) = n
              /\ Len(waited) = n
              /\ waitCalls = n
              /\ WaitedSet = ForkedSet

C1_Witness ==
    /\ task = "1" /\ n >= 3 /\ Finished
    /\ Len(waited) = n
    /\ WaitedPids # forked

\* C2: tasks 1, 2, 3z, 5: wait() never returns the same pid twice, and when
\* the final line has been printed every pid fork() returned has been returned
\* by wait() exactly once.
C2_ReapedExactlyOnce ==
    task \in {"1", "2", "3z", "5"} =>
        /\ NoDup(WaitedPids)
        /\ Finished => \A p \in ForkedSet : Times(WaitedPids, p) = 1

C2_Witness ==
    /\ task = "2" /\ prog = "found" /\ Finished
    /\ Len(forked) >= 3
    /\ \A p \in ForkedSet : Times(WaitedPids, p) = 1

\* C3: task 2 when the program is not found: every child that has terminated
\* printed the "exec failed" diagnostic and ended with exit status 1, and when
\* the parent has printed "All children finished." it has reaped exactly N
\* children, each with that status.
C3_ExecNotFound ==
    (task = "2" /\ prog = "missing") =>
        /\ \A p \in DOMAIN procs :
              procs[p].pc \in {"zombie", "reaped"} =>
                 /\ <<"execfailed", procs[p].idx>> \in procs[p].said
                 /\ procs[p].status \div 256 = 1
        /\ Finished =>
              /\ Len(forked) = RangeLen(n)
              /\ Len(waited) = RangeLen(n)
              /\ WaitedSet = ForkedSet
              /\ \A j \in 1..Len(waited) : waited[j][2] \div 256 = 1
              /\ \A p \in ForkedSet : procs[p].pc = "reaped"

C3_Witness ==
    /\ task = "2" /\ prog = "missing" /\ n >= 2 /\ Finished
    /\ Len(waited) = n
    /\ \A p \in ForkedSet : <<"execfailed", procs[p].idx>> \in procs[p].said

\* C4: task 5 with N >= 0: the j-th child forked carries the j-th value of
\* 0, 5, 10, 15, 19, never more than min(N, 5) children are forked, and once
\* the spawn loop is over exactly min(N, 5) have been; the hints are distinct.
C4_NiceAssignment ==
    (task = "5" /\ n >= 0) =>
        /\ Len(forked) <= Min(n, 5)
        /\ \A j \in 1..Len(forked) : procs[forked[j]].nice = <<0, 5, 10, 15, 19>>[j]
        /\ \A a, b \in 1..Len(forked) :
              a # b => procs[forked[a]].nice # procs[forked[b]].nice
        /\ (pc \in {"t5_reap", "t5_final"} \/ Finished) => Len(forked) = Min(n, 5)

C4_Witness ==
    /\ task = "5" /\ n > 5 /\ Finished
    /\ Len(forked) = 5
    /\ procs[forked[5]].nice = 19

\* C5: task 5: order is always the sequence of pids wait() returned, and when
\* the reap loop has ended it is a permutation of the forked pids.
C5_FinishOrder ==
    task = "5" =>
        /\ order = WaitedPids
        /\ (pc = "t5_final" \/ Finished) =>
              /\ Len(order) = Len(forked)
              /\ NoDup(order)
              /\ {order[j] : j \in 1..Len(order)} = ForkedSet

C5_Witness ==
    /\ task = "5" /\ Finished
    /\ Len(order) >= 3
    /\ order # forked
    /\ order = WaitedPids

\* C6: on Linux, tasks 1, 2, 5 with N = 0 fork nothing and end with the final
\* line and status 0; in tasks 2 and 5 the parent is past its reap loop only
\* after wait() reported "no children" (and none is left), and it then ends
\* with the final line and status 0, never with a failure status.
C6_NoChildrenIsSuccess ==
    platform = "Linux" =>
        /\ (task \in {"1", "2", "5"} /\ n = 0) =>
              /\ forked = <<>>
              /\ pc = "exit" => (final /\ exitStatus = 0)
        /\ task \in {"2", "5"} =>
              /\ pc \in {"t2_final", "t5_final", "exit"} =>
                    (nochild /\ ~HasChildren(procs, ParentPid))
              /\ pc \notin {"t2_final", "t5_final", "exit"} => ~nochild
              /\ exitStatus \in {-1, 0}
              /\ pc = "exit" => (final /\ exitStatus = 0)

C6_Witness ==
    /\ platform = "Linux" /\ task = "5" /\ n = 0
    /\ pc = "exit" /\ final /\ exitStatus = 0
    /\ nochild /\ waitCalls = 1 /\ forked = <<>>

\* C7: zombie demo: at most one child is forked; wait() is not called before
\* subprocess.run has returned (its helper collected) and the sleep is over;
\* wait() is called at most once and returns the forked child; when the demo
\* is complete one child was forked, one wait() was made and nothing is left.
C7_ZombieDemo ==
    task = "3z" =>
        /\ Len(forked) <= 1
        /\ waitCalls <= 1
        /\ waitCalls > 0 =>
              /\ scan # "none"
              /\ Helpers # {} /\ \A h \in Helpers : procs[h].pc = "reaped"
              /\ slept
              /\ Len(waited) = 1
              /\ waited[1][1] = forked[1]
        /\ Finished =>
              /\ Len(forked) = 1
              /\ waitCalls = 1
              /\ Live(procs) = {}

C7_Witness ==
    /\ task = "3z" /\ Finished
    /\ scan = "defunct"
    /\ waitCalls = 1
    /\ waited[1][1] = forked[1]
    /\ waited[1][1] \notin Helpers

\* C8 as stated: the parent id printed after the sleep is the root process id
\* and differs from the one printed first (so the one printed first is never
\* the root process id).
C8_AfterSleepIsRootAndDiffers ==
    task = "3o" =>
        /\ Len(reports) >= 1 => reports[1].ppid # RootPid
        /\ Len(reports) = 2 =>
              /\ reports[2].ppid = RootPid
              /\ reports[2].ppid # reports[1].ppid

\* C8 (amended): each parent id the child prints is the root process id if
\* the parent had exited when it was read and the parent's pid otherwise; the
\* two differ exactly when the parent exited between the two reads.
C8_ReportsFollowParentExit ==
    task = "3o" =>
        /\ \A j \in 1..Len(reports) :
              reports[j].ppid = IF reports[j].orphaned THEN RootPid ELSE ParentPid
        /\ Len(reports) = 2 =>
              /\ reports[1].orphaned => reports[2].orphaned
              /\ (reports[2].ppid # reports[1].ppid)
                    <=> (~reports[1].orphaned /\ reports[2].orphaned)

C8_Witness ==
    /\ task = "3o" /\ Len(reports) = 2
    /\ reports[1].ppid = ParentPid
    /\ reports[2].ppid = RootPid
    /\ reports[2].orphaned

\* C9: orphan demo under a fair scheduler: the parent never calls wait() and
\* exits with status 0; the child, while it runs, can always take its next
\* step whatever the parent does, and eventually has woken, printed both
\* parent ids and terminated.
C9_OrphanTerminates ==
    /\ [](task = "3o" =>
            /\ waitCalls = 0
            /\ (platform = "Linux" /\ pc = "exit") => exitStatus = 0
            /\ \A p \in ForkedSet :
                  procs[p].pc \notin {"zombie", "reaped"} => ENABLED ChildStep(p))
    /\ (task = "3o" /\ platform = "Linux") ~>
            /\ pc = "exit" /\ exitStatus = 0
            /\ Len(forked) = 1
            /\ Len(reports) = 2
            /\ procs[forked[1]].pc \in {"zombie", "reaped"}

C9_Witness ==
    /\ task = "3o" /\ pc = "exit" /\ exitStatus = 0
    /\ waitCalls = 0 /\ waited = <<>>
    /\ Len(reports) = 2
    /\ Len(forked) = 1 /\ procs[forked[1]].pc = "reaped"
    /\ procs[forked[1]].status = 0

\* C10: tasks 1, 2, 3z, 5: when the final line has been printed no forked
\* child is running or a zombie.
C10_NoLeak ==
    (task \in {"1", "2", "3z", "5"} /\ Finished) =>
        \A p \in ForkedSet : procs[p].pc = "reaped"

C10_Witness ==
    /\ task = "3z" /\ Finished
    /\ scan = "clean"
    /\ forked # <<>>
    /\ \A p \in ForkedSet : procs[p].pc = "reaped"

\* C11 as stated: the exit status is 1 exactly when the platform is not Linux
\* or task 4 was selected without --pid; task 4 with a --pid value calls the
\* inspector on that pid; a task that runs to its end gives exit status 0.
C11_ExitCodes ==
    /\ pc = "exit" =>
          (exitStatus = 1 <=> (platform # "Linux" \/ (task = "4" /\ ~pidGiven)))
    /\ (platform = "Linux" /\ task = "4" /\ pidGiven /\ pc # "main") => target = <<pid>>
    /\ (pc = "exit" /\ (final \/ calls # <<>>)) => exitStatus = 0

\* C12: on a platform that is not Linux the program goes from its start
\* straight to exit status 1: no task routine is entered, no process is
\* created, nothing under /proc is accessed and nothing is printed by a task.
C12_PlatformGuard ==
    platform # "Linux" =>
        /\ pc \in {"main", "exit"}
        /\ pc = "exit" => exitStatus = 1
        /\ procs = <<>> /\ forked = <<>>
        /\ target = <<>> /\ reads = <<>> /\ calls = <<>>
        /\ plines = <<>> /\ iout = <<>> /\ ~final

C12_Witness ==
    /\ platform # "Linux" /\ task = "4" /\ pidGiven /\ pid # 0
    /\ pc = "exit" /\ exitStatus = 1
    /\ reads = <<>> /\ procs = <<>>

\* C13: task 4 when /proc/<pid> exists: whatever succeeds or fails, a call
\* that has returned made the status, exe and fd accesses in that order, and
\* when the fd listing succeeded it then tried every descriptor of the list,
\* in order; the program never ends with a failure status.
C13_SubReadsIndependent ==
    (task = "4" /\ reads # <<>> /\ reads[1].ok) =>
        /\ exitStatus \in {-1, 0}
        /\ pc \in {"i4_return", "exit"} =>
              /\ Len(reads) >= 4
              /\ reads[2].what = "status"
              /\ reads[3].what = "exe"
              /\ reads[4].what = "fd"
              /\ IF reads[4].ok
                 THEN /\ Len(reads) = 4 + Len(fds)
                      /\ \A x \in 1..Len(fds) :
                            reads[4 + x].what = "link" /\ reads[4 + x].fd = fds[x]
                 ELSE Len(reads) = 4

C13_Witness ==
    /\ task = "4" /\ pc = "exit" /\ exitStatus = 0
    /\ Len(reads) = 6 /\ Len(fds) = 2
    /\ reads[1].ok /\ ~reads[2].ok /\ ~reads[3].ok /\ reads[4].ok
    /\ ~reads[5].ok
    /\ reads[6].what = "link" /\ reads[6].fd = fds[2]

\* C14: a call of task4_inspect that finds /proc/<pid> absent makes no other
\* access and prints only the heading and the "does not exist" line; any two
\* such calls have the same outcome, and while only such calls have been made
\* nothing else in the program or its processes has changed.
C14_AbsentIsIdempotent ==
    /\ \A x \in 1..Len(calls) :
          ~calls[x].reads[1].ok =>
             /\ calls[x].reads = <<Read("dir", -1, FALSE)>>
             /\ calls[x].lines = <<"inspecting", "absent">>
    /\ \A x, y \in 1..Len(calls) :
          (~calls[x].reads[1].ok /\ ~calls[y].reads[1].ok) => calls[x] = calls[y]
    /\ (reads # <<>> /\ ~reads[1].ok) => (Len(reads) = 1 /\ pc \in {"i4_return", "exit"})
    /\ procs = <<>> /\ forked = <<>> /\ waited = <<>> /\ plines = <<>>
    /\ ((\A x \in 1..Len(calls) : ~calls[x].reads[1].ok) /\ (reads = <<>> \/ ~reads[1].ok))
          => (fds = <<>> /\ fdi = 0)

C14_Witness ==
    /\ Len(calls) = 2
    /\ ~calls[1].reads[1].ok /\ ~calls[2].reads[1].ok
    /\ calls[1] = calls[2]
    /\ calls[2].lines = <<"inspecting", "absent">>
    /\ pc = "exit" /\ exitStatus = 0

\* the lines of one kind among the parent's lines, in order
LinesOf(kind) == SelectSeq(plines, LAMBDA l : l[1] = kind)

\* C15: task 1: the parent's first line is the parent-PID line and it is
\* printed once; its "spawned" lines name the forked pids in creation order
\* and all come before any "wait() returned" line; the j-th child prints no
\* line but the greeting with index j, and has printed it when the parent
\* prints "wait() returned" for it; "All children reaped." is printed at most
\* once, last, by the parent, after N "wait() returned" lines.
C15_Task1Output ==
    task = "1" =>
        /\ plines # <<>> => plines[1] = <<"header", ParentPid>>
        /\ Len(LinesOf("header")) <= 1
        /\ procs # <<>> => plines # <<>>
        /\ LinesOf("spawned") = [j \in 1..Len(forked) |-> <<"spawned", forked[j]>>]
        /\ NoDup(forked)
        /\ \A a, b \in 1..Len(plines) :
              (plines[a][1] = "spawned" /\ plines[b][1] = "waited") => a < b
        /\ \A j \in 1..Len(forked) : procs[forked[j]].said \subseteq {<<"greet", j>>}
        /\ \A a \in 1..Len(plines) :
              plines[a][1] = "waited" =>
                 \E j \in 1..Len(forked) :
                    /\ forked[j] = plines[a][2]
                    /\ <<"greet", j>> \in procs[forked[j]].said
        /\ Len(LinesOf("final")) <= 1
        /\ \A a \in 1..Len(plines) :
              plines[a][1] = "final" =>
                 /\ a = Len(plines)
                 /\ Len(LinesOf("waited")) = RangeLen(n)
                 /\ Len(LinesOf("spawned")) = RangeLen(n)
        /\ Finished => Len(LinesOf("final")) = 1

C15_Witness ==
    /\ task = "1" /\ n = 2 /\ Finished
    /\ plines = <<<<"header", ParentPid>>, <<"spawned", forked[1]>>,
                  <<"spawned", forked[2]>>, <<"waited", forked[2]>>,
                  <<"waited", forked[1]>>, <<"final", 0>>>>
    /\ procs[forked[1]].said = {<<"greet", 1>>}
    /\ procs[forked[2]].said = {<<"greet", 2>>}

\* the parent is inside its reap loop and about to call os.wait()
InReapLoop ==
    \/ task = "1" /\ pc = "t1_reap" /\ k < T1ReapTurns(children)
    \/ task = "2" /\ pc = "t2_reap"

\* what the reap loops of tasks 1 and 2 have in common
ReapLoopState ==
    task \in {"1", "2"} =>
        /\ NoDup(WaitedPids) /\ WaitedSet \subseteq ForkedSet
        /\ \A j \in 1..Len(waited) : waited[j][2] = procs[waited[j][1]].status
        /\ pc \in {"t1_reap", "t2_reap", "t2_final"} => Len(forked) = RangeLen(n)
        /\ (task = "1" /\ pc = "t1_reap") =>
              /\ k = Len(waited) /\ ~nochild
              /\ k < T1ReapTurns(children) <=> HasChildren(procs, ParentPid)
        /\ (task = "2" /\ pc = "t2_reap") => ~nochild
        /\ (task = "2" /\ pc = "t2_final") => nochild /\ ~HasChildren(procs, ParentPid)
        /\ InReapLoop =>
              \A p \in Zombies(procs, ParentPid) :
                  ENABLED ((T1Wait \/ T2Wait) /\ waited' = Append(waited, <<p, procs[p].status>>))
        /\ Finished =>
              /\ WaitedSet = ForkedSet /\ Len(waited) = RangeLen(n)
              /\ waitCalls = Len(waited) + (IF task = "2" THEN 1 ELSE 0)
              /\ exitStatus = 0

\* a turn of either reap loop records the terminated child wait() returned
ReapLoopStep ==
    (task \in {"1", "2"} /\ waited' # waited) =>
        /\ InReapLoop
        /\ \E p \in Zombies(procs, ParentPid) :
              /\ waited' = Append(waited, <<p, procs[p].status>>)
              /\ procs' = Reap(procs, p)
        /\ forked' = forked

\* C16: the reap loops of task 1 (one wait() per recorded child) and task 2
\* (wait() until ChildProcessError) behave alike: each is in the loop exactly
\* while the parent has an unreaped child, each turn may return any terminated
\* child and records its (pid, status) pair, and both finish with every
\* forked child reaped once; task 2 makes one more wait() call, the failing one.
C16_SameReaping == [](ReapLoopState) /\ [][ReapLoopStep]_vars

C16_Witness ==
    /\ task = "2" /\ n = 2 /\ Finished /\ waitCalls = 3 /\ nochild
    /\ waited = <<<<forked[2], WaitStatus(1)>>, <<forked[1], WaitStatus(1)>>>>

\* positions of the children of tasks 1, 2 and 5, and the lines they print
ChildPcs ==
    {"c1_greet", "c1_sleep", "c2_about", "c2_exec", "c2_diag", "c2_raise",
     "c2_image", "c5_nice", "c5_work", "zombie", "reaped"}
ChildLines == {"greet", "about", "execfailed", "start", "finished"}

\* every process is a child the parent forked, one per executed iteration
OnlyParentForksState ==
    task \in {"1", "2", "5"} =>
        /\ DOMAIN procs = ForkedSet /\ NoDup(forked)
        /\ Cardinality(DOMAIN procs) = i
        /\ i <= (IF task = "5" THEN Len(nicelist) ELSE RangeLen(n))
        /\ \A p \in DOMAIN procs :
              /\ procs[p].ppid \in {ParentPid, RootPid}
              /\ procs[p].ppid = RootPid => ~ParentAlive
              /\ procs[p].pc \in ChildPcs
              /\ \A l \in procs[p].said : l[1] \in ChildLines

\* a process is created only by the parent's fork step, and a step of the
\* reap loop or the final line is never a step of a child
OnlyParentForksStep ==
    task \in {"1", "2", "5"} =>
        /\ DOMAIN procs' # DOMAIN procs =>
              /\ pc \in {"t1_spawn", "t2_spawn", "t5_spawn"}
              /\ i' = i + 1
              /\ DOMAIN procs' = DOMAIN procs \cup {NewPid(procs)}
              /\ procs'[NewPid(procs)].ppid = ParentPid
              /\ \A p \in DOMAIN procs : procs'[p] = procs[p]
        /\ (waited' # waited \/ waitCalls' # waitCalls \/ final' # final \/ plines' # plines) =>
              \A p \in DOMAIN procs :
                  /\ procs'[p].said = procs[p].said
                  /\ procs'[p].pc = procs[p].pc \/ procs'[p].pc = "reaped"

\* C17: in tasks 1, 2 and 5 only the parent forks: every process is a child of
\* the parent created by one iteration of its spawn loop, whatever way the
\* children end (exit, replaced image, failed exec, uncaught exception); no
\* child prints a parent line or takes a turn of the reap loop; the number of
\* processes created equals the number of iterations the parent has executed.
C17_OnlyParentForks == [](OnlyParentForksState) /\ [][OnlyParentForksStep]_vars

C17_Witness ==
    /\ task = "2" /\ prog = "denied" /\ n = 2 /\ Finished
    /\ i = 2 /\ Cardinality(DOMAIN procs) = 2
    /\ \A p \in DOMAIN procs :
          /\ procs[p].pc = "reaped" /\ procs[p].status = WaitStatus(1)
          /\ procs[p].ppid = ParentPid

\* a task 5 child does its work and ends with status 0 whatever os.nice did
NiceToleratedState ==
    task = "5" =>
        /\ \A p \in DOMAIN procs :
              /\ procs[p].pc \in {"c5_nice", "c5_work", "zombie", "reaped"}
              /\ procs[p].pc # "c5_nice" => <<"start", procs[p].nice>> \in procs[p].said
              /\ procs[p].pc \in {"zombie", "reaped"} =>
                    /\ <<"finished", procs[p].nice>> \in procs[p].said
                    /\ procs[p].status = WaitStatus(0)
        /\ Finished =>
              /\ \A p \in DOMAIN procs : procs[p].pc = "reaped"
              /\ WaitedSet = ForkedSet
              /\ \A j \in 1..Len(waited) : waited[j][2] = WaitStatus(0)
              /\ exitStatus = 0

\* the step that applies the niceness value touches the calling child only,
\* and differs between success and failure in nothing but the niceness applied
NiceToleratedStep ==
    \A p \in DOMAIN procs :
        (task = "5" /\ procs[p].pc = "c5_nice" /\ procs'[p].pc # "c5_nice") =>
            /\ procs' = [procs EXCEPT ![p] =
                            [@ EXCEPT !.pc = "c5_work",
                                      !.said = @ \cup {<<"start", procs[p].nice>>},
                                      !.niceOk = procs'[p].niceOk]]
            /\ UNCHANGED <<pc, i, k, children, nicelist, order, forked, waited,
                           waitCalls, nochild, final, exitStatus, plines>>

\* C18: task 5: whether os.nice succeeds or fails in a child, the child prints
\* its start line, does the work, prints its finish line, exits with status 0
\* and is reaped by the parent; the failure changes nothing in the parent or
\* in the other children.
C18_NiceFailureTolerated == [](NiceToleratedState) /\ [][NiceToleratedStep]_vars

C18_Witness ==
    /\ task = "5" /\ n = 2 /\ Finished
    /\ ~procs[forked[1]].niceOk /\ procs[forked[2]].niceOk
    /\ \A j \in 1..2 : procs[forked[j]].pc = "reaped" /\ procs[forked[j]].status = WaitStatus(0)
    /\ order = <<forked[1], forked[2]>>

\* the demo's child and the helper of subprocess.run are both about to act
ScanRace(c, h) ==
    /\ task = "3z" /\ forked = <<c>> /\ h \in Helpers
    /\ procs[h].pc = "ps_scan"

\* neither the child's exit nor the scan has to wait for the other, and the
\* scan reports a defunct entry exactly when the child has already exited
ScanRaceState ==
    \A c, h \in DOMAIN procs :
        ScanRace(c, h) =>
            /\ procs[c].pc \in {"cz_exit", "zombie"}
            /\ pc = "z_pswait" /\ scan = "none" /\ ~slept /\ waitCalls = 0
            /\ procs[c].pc = "cz_exit" =>
                  /\ ENABLED CZExit(c)
                  /\ ENABLED (PsScan(h) /\ scan' = "clean")
                  /\ ~ENABLED (PsScan(h) /\ scan' = "defunct")
            /\ procs[c].pc = "zombie" =>
                  /\ ENABLED (PsScan(h) /\ scan' = "defunct")
                  /\ ~ENABLED (PsScan(h) /\ scan' = "clean")

\* after either report the parent is on the same path
AfterScanState ==
    (task = "3z" /\ scan # "none") =>
        /\ scan \in {"clean", "defunct"}
        /\ pc \in {"z_pswait", "z_sleep", "z_wait", "z_final", "exit"}
        /\ pc \in {"z_final", "exit"} => slept /\ waitCalls = 1 /\ ~nochild
        /\ pc = "z_wait" => slept /\ waitCalls = 0
        /\ pc = "z_pswait" => ENABLED ZPsDone
        /\ pc = "z_sleep" => ENABLED ZSleep
        /\ (pc = "z_wait" /\ procs[forked[1]].pc = "zombie") => ENABLED ZWait

\* C19: zombie demo: the child's exit and the scan of the process table are
\* not ordered: while the helper is about to scan, the child may exit first
\* (the scan then reports a defunct entry) or the scan may run first (it then
\* reports none); after either report the parent eventually has slept, made
\* its single wait() and completed the demo.
C19_ScanRace ==
    /\ [](ScanRaceState /\ AfterScanState)
    /\ \A r \in {"clean", "defunct"} :
          (task = "3z" /\ scan = r) ~>
              (Finished /\ scan = r /\ slept /\ waitCalls = 1 /\ Len(waited) = 1)

C19_Witness ==
    /\ task = "3z" /\ Finished /\ scan = "clean" /\ slept
    /\ waitCalls = 1 /\ waited = <<<<forked[1], WaitStatus(0)>>>>
    /\ procs[forked[1]].said = {<<"exiting", 0>>}
    /\ \A h \in Helpers : procs[h].pc = "reaped"

\* C20 as stated: with a negative --n tasks 1, 2 and 5 fork no child and exit
\* with status 0; the number of children never exceeds max(N, 0), and in
\* task 5 never exceeds min(max(N, 0), 5).
C20_NegativeSpawnsNone ==
    (platform = "Linux" /\ task \in {"1", "2", "5"}) =>
        /\ n < 0 => forked = <<>> /\ procs = <<>>
        /\ Len(forked) <= Max(n, 0)
        /\ task = "5" => Len(forked) <= Min(Max(n, 0), 5)
        /\ pc = "exit" => exitStatus = 0 /\ final
====
